---- MODULE Spec2Model ----
(***************************************************************************)
(* A model of the PDF numeric brute-force scripts:                         *)
(*   src/pdf_crack_numeric_len.py      (prog = "numeric"; v-3 has the same *)
(*                                      trial loop)                        *)
(*   src/v-4/pdf_crack_commercial.py   (prog = "commercial")               *)
(*   src/v-2/pdf_crack_63-2.py         (prog = "fixed63")                  *)
(*                                                                         *)
(* Strings are sequences of one-character strings, byte strings are        *)
(* sequences of integers.  Sequences are 1-based here, so a position i of  *)
(* the Python code is position i+1 of the model.                           *)
(*                                                                         *)
(* Five specifications share the variables:                                *)
(*   SpecEnum  runs the two candidate generators on their own,             *)
(*   SpecVar   applies build_variants to one candidate,                    *)
(*   Spec      runs main() of each script from the opening of the log to   *)
(*             the end of the process, with the validator's answer and the *)
(*             arrival of SIGINT left open,                                *)
(*   SpecSetup runs main() of each script from the start of the process,   *)
(*             through its checks and prompts, to the end of the first     *)
(*             attempt_open call, with the lines typed left open,          *)
(*   SpecRate  computes the progress line of one attempt.                  *)
(*                                                                         *)
(* Under Spec a run starts with the pattern already chosen and valid (the  *)
(* prompts of pdf_crack_numeric_len.py, the mask argument of v-4), and the *)
(* clock stands still (elapsed = 0).  v-4 without a mask enumerates        *)
(* str(v).zfill(4) for v in range(10000), the candidates of the mask       *)
(* "****"; that run lies beyond MaxUnknown and is in none of the           *)
(* specifications.  A write to output.txt is one step: each line is        *)
(* written and the file closed by a single "with open(...)" block.         *)
(***************************************************************************)
EXTENDS Integers, Sequences, FiniteSets, TLC

VARIABLES
    prog,         \* which script runs
    pattern,      \* pattern (numeric) / mask (commercial); "**63" for fixed63
    pc,           \* position of main()
    gen,          \* state of the candidate iterator
    candidate,    \* candidate / base_candidate of the current iteration
    attempt,      \* attempt
    variants,     \* variants of the current base_candidate (commercial)
    vi,           \* position of "for var in variants" (commercial)
    ok,           \* ok
    found,        \* found
    found_info,   \* found_password (numeric, fixed63) / found_info (commercial)
    log,          \* the lines of output.txt
    reports,      \* the attempt numbers of the progress lines printed
    calls,        \* history: every attempt_open call begun, with its outcome
    raised,       \* history: the latest attempt_open call raised an Exception
    interrupts,   \* history: number of SIGINTs delivered
    pending,      \* an exception is propagating through "finally"
    env,          \* what the process finds: sys.argv, the PDF file, _BACKEND
    length,       \* length (numeric); 0 until prompt_length has returned
    status,       \* "none" while the process runs, then its exit status
    confirmed,    \* the user has confirmed the run of the pattern chosen
    raw,          \* the line the latest input() returned
    msg,          \* the latest message printed by a prompt function
    elapsed,      \* elapsed, in microseconds
    progress      \* the latest progress line: attempt, rate and ETA

\* the variables of the setup phase and those of the progress line
setupvars == <<env, length, status, confirmed, raw, msg>>

ratevars == <<elapsed, progress>>

vars == <<prog, pattern, pc, gen, candidate, attempt, variants, vi, ok, found,
          found_info, log, reports, calls, raised, interrupts, pending,
          setupvars, ratevars>>

-----------------------------------------------------------------------------
(* Bounds of the model *)

\* longest pattern of a run under Spec
MaxLen == 2
\* most wildcards of a pattern of a run under Spec
MaxUnknown == 1
\* longest pattern under SpecEnum
EnumMaxLen == 4
\* most wildcards of a pattern under SpecEnum
EnumMaxUnknown == 2
\* longest candidate handed to build_variants under SpecVar
VarMaxLen == 4
\* most SIGINTs delivered to one run
MaxInterrupts == 1

-----------------------------------------------------------------------------
(* Characters and digits *)

\* the pool "0123456789" of product() and the digits str() produces
DigitChars == <<"0", "1", "2", "3", "4", "5", "6", "7", "8", "9">>

DigitSet == {DigitChars[i] : i \in 1..10}

\* the fixed digits patterns are drawn from
PatDigits == {"6", "3"}

Wildcard == "*"

\* ord(c) of a digit, of '*' or of 'x'
Ord(c) ==
    CASE c = "*" -> 42
      [] c = "x" -> 120
      [] OTHER -> 47 + (CHOOSE i \in 1..10 : DigitChars[i] = c)

RECURSIVE Pow10(_)
Pow10(k) == IF k = 0 THEN 1 ELSE 10 * Pow10(k - 1)

\* s[::-1]
Reverse(s) == [i \in 1..Len(s) |-> s[Len(s) + 1 - i]]

\* all strings over the character set cs of length 1..n
RECURSIVE StringsOfLen(_, _)
StringsOfLen(cs, n) ==
    IF n = 0 THEN {<<>>}
    ELSE {Append(s, c) : s \in StringsOfLen(cs, n - 1), c \in cs}

StringsUpTo(cs, n) == UNION {StringsOfLen(cs, l) : l \in 1..n}

\* a str or bytes value handed to attempt_open
Payload(typ, val) == [typ |-> typ, val |-> val]

\* found_password / found_info: the base candidate, the successful payload and
\* (commercial) the attempt number stored with it; NoInfo is None
FoundInfo(core, var, at) == [core |-> core, var |-> var, at |-> at]

NoInfo == FoundInfo(<<>>, Payload("none", <<>>), 0)

-----------------------------------------------------------------------------
(* The process environment and the progress line *)

\* sys.argv has the length main expects, the PDF path names a file, and a
\* PDF library was imported (_BACKEND / BACKEND is not None)
Env(argv, file, backend) == [argv |-> argv, file |-> file, backend |-> backend]

ReadyEnv == Env(TRUE, TRUE, TRUE)

\* microseconds in a second: elapsed is held in microseconds, so the floor
\* 1e-6 of max(1e-6, elapsed) is one unit
MICRO == 1000000

\* exact quotients num/den with den > 0, in lowest terms; Python computes them
\* in floating point
RECURSIVE Gcd(_, _)
Gcd(a, b) == IF b = 0 THEN a ELSE Gcd(b, a % b)

Quot(n, d) == LET g == Gcd(n, d) IN [num |-> n \div g, den |-> d \div g]

QuotMul(x, y) ==
    LET g1 == Gcd(x.num, y.den)
        g2 == Gcd(y.num, x.den)
    IN IF x.num = 0 \/ y.num = 0 THEN Quot(0, 1)
       ELSE [num |-> (x.num \div g1) * (y.num \div g2),
             den |-> (x.den \div g2) * (y.den \div g1)]

\* x / y for y > 0
QuotDiv(x, y) == QuotMul(x, [num |-> y.den, den |-> y.num])

\* float("inf")
Inf == [num |-> 1, den |-> 0]

\* max(1e-6, elapsed), in seconds
ClampElapsed(e) == Quot(IF e < 1 THEN 1 ELSE e, MICRO)

\* rate = attempt / max(1e-6, elapsed)
Rate(a, e) == QuotDiv(Quot(a, 1), ClampElapsed(e))

\* rem = max(0, total_space - attempt)
Rem(total_space, a) == IF total_space - a < 0 THEN 0 ELSE total_space - a

\* eta = rem / rate if rate > 0 else float("inf")
Eta(total_space, a, e) ==
    IF Rate(a, e).num > 0 THEN QuotDiv(Quot(Rem(total_space, a), 1), Rate(a, e))
    ELSE Inf

\* the progress line printed for an attempt: its number, rate and ETA
ProgressLine(a, e, total_space) ==
    [attempt |-> a, rate |-> Rate(a, e), eta |-> Eta(total_space, a, e)]

NoProgress == [attempt |-> 0, rate |-> Quot(0, 1), eta |-> Quot(0, 1)]

-----------------------------------------------------------------------------
(* Candidate enumeration *)

\* [i for i, ch in enumerate(pattern) if ch == "*"]
RECURSIVE WildcardsFrom(_, _)
WildcardsFrom(p, i) ==
    IF i > Len(p) THEN <<>>
    ELSE (IF p[i] = Wildcard THEN <<i>> ELSE <<>>) \o WildcardsFrom(p, i + 1)

unknown_indices(p) == WildcardsFrom(p, 1)

\* s = list(pattern); for pos, digit in zip(unknown_indices, digits): s[pos] = digit
RECURSIVE ZipAssign(_, _, _, _)
ZipAssign(s, idx, digits, j) ==
    IF j > Len(idx) \/ j > Len(digits) THEN s
    ELSE ZipAssign([s EXCEPT ![idx[j]] = digits[j]], idx, digits, j + 1)

build_candidate_from_pattern(p, replacement_digits, idx) ==
    ZipAssign(p, idx, replacement_digits, 1)

\* faulty variant of ProductAdvance: the leftmost position advances fastest
ProductAdvance_LeftFastest(ind) ==
    LET free == {i \in 1..Len(ind) : ind[i] < 10}
        p == CHOOSE i \in free : \A j \in free : i <= j
    IN [i \in 1..Len(ind) |-> IF i < p THEN 1 ELSE IF i = p THEN ind[i] + 1 ELSE ind[i]]

\* itertools.product(pool, repeat=k): the tuple after ind, the rightmost
\* position advancing fastest
ProductAdvance(ind) ==
    LET free == {i \in 1..Len(ind) : ind[i] < 10}
        p == CHOOSE i \in free : \A j \in free : j <= i
    IN [i \in 1..Len(ind) |-> IF i > p THEN 1 ELSE IF i = p THEN ind[i] + 1 ELSE ind[i]]

\* the tuple of pool characters product() yields for the pool positions ind
ProductTuple(ind) == [i \in 1..Len(ind) |-> DigitChars[ind[i]]]

\* str(val) of a non-negative integer
RECURSIVE Str(_)
Str(v) == IF v < 10 THEN <<DigitChars[v + 1]>>
          ELSE Append(Str(v \div 10), DigitChars[(v % 10) + 1])

\* faulty variant of Zfill: no padding
Zfill_NoPad(s, n) == s

\* s.zfill(n)
RECURSIVE Zfill(_, _)
Zfill(s, n) == IF Len(s) >= n THEN s ELSE Zfill(<<"0">> \o s, n)

\* the state of an iterator over candidates:
\*   kind "list"    : iter([pattern])                     val = items taken
\*   kind "product" : candidate_generator()               ind = pool positions
\*   kind "mask"    : generate_last4_from_mask(mask)      val = next val
\*   kind "range"   : for d1 in range(100)                val = next d1
GenState(kind, val, ind, fresh) ==
    [kind |-> kind, val |-> val, ind |-> ind, fresh |-> fresh]

\* candidates_iter of pdf_crack_numeric_len.main
NumericIter(p) ==
    LET k == Len(unknown_indices(p))
    IN IF k = 0 THEN GenState("list", 0, <<>>, TRUE)
       ELSE GenState("product", 0, [i \in 1..k |-> 1], TRUE)

\* gen of pdf_crack_commercial.main when a mask is given
CommercialIter(p) == GenState("mask", 0, <<>>, TRUE)

\* the loop "for d1 in range(100)" of pdf_crack_63-2.main
Fixed63Iter == GenState("range", 0, <<>>, TRUE)

\* next(iterator): done, or the candidate yielded and the iterator's new state
GenNext(g, p) ==
    LET idx == unknown_indices(p)
        n == Len(idx)
        stop == [done |-> TRUE, value |-> <<>>, gen |-> [g EXCEPT !.fresh = FALSE]]
    IN CASE g.kind = "list" ->
              IF g.val >= 1 THEN stop
              ELSE [done |-> FALSE, value |-> p,
                    gen |-> [g EXCEPT !.val = 1, !.fresh = FALSE]]
         [] g.kind = "product" ->
              IF g.fresh
              THEN [done |-> FALSE,
                    value |-> build_candidate_from_pattern(p, ProductTuple(g.ind), idx),
                    gen |-> [g EXCEPT !.fresh = FALSE]]
              ELSE IF \A i \in 1..Len(g.ind) : g.ind[i] = 10 THEN stop
              ELSE LET ind2 == ProductAdvance(g.ind)
                   IN [done |-> FALSE,
                       value |-> build_candidate_from_pattern(p, ProductTuple(ind2), idx),
                       gen |-> [g EXCEPT !.ind = ind2]]
         [] g.kind = "mask" ->
              IF n = 0
              THEN IF g.fresh
                   THEN [done |-> FALSE, value |-> p, gen |-> [g EXCEPT !.fresh = FALSE]]
                   ELSE stop
              ELSE IF g.val >= Pow10(n) THEN stop
              ELSE [done |-> FALSE,
                    value |-> ZipAssign(p, idx, Zfill(Str(g.val), n), 1),
                    gen |-> [g EXCEPT !.val = g.val + 1, !.fresh = FALSE]]
         [] g.kind = "range" ->
              IF g.val >= 100 THEN stop
              ELSE [done |-> FALSE,
                    value |-> Zfill(Str(g.val), 2) \o <<"6", "3">>,
                    gen |-> [g EXCEPT !.val = g.val + 1, !.fresh = FALSE]]

-----------------------------------------------------------------------------
(* SpecEnum: the generators run to exhaustion *)

\* patterns of digits and '*' with 1..maxlen symbols and at most maxk wildcards
PatternsOf(maxlen, maxk) ==
    {p \in StringsUpTo(PatDigits \cup {Wildcard}, maxlen) :
        Len(unknown_indices(p)) <= maxk}

EnumInit ==
    /\ prog \in {"numeric", "commercial"}
    /\ pattern \in PatternsOf(EnumMaxLen, EnumMaxUnknown)
    /\ pc = "e_run"
    /\ gen = IF prog = "numeric" THEN NumericIter(pattern) ELSE CommercialIter(pattern)
    /\ candidate = <<>>
    /\ attempt = 0
    /\ variants = <<>>
    /\ vi = 0
    /\ ok = FALSE
    /\ found = FALSE
    /\ found_info = NoInfo
    /\ log = <<>>
    /\ reports = <<>>
    /\ calls = <<>>
    /\ raised = FALSE
    /\ interrupts = 0
    /\ pending = FALSE
    /\ env = ReadyEnv
    /\ length = 0
    /\ status = "none"
    /\ confirmed = FALSE
    /\ raw = <<>>
    /\ msg = "none"
    /\ elapsed = 0
    /\ progress = NoProgress

\* one next() on the generator; attempt counts the candidates yielded
Enum_Yield ==
    /\ pc = "e_run"
    /\ LET r == GenNext(gen, pattern)
       IN /\ ~r.done
          /\ candidate' = r.value
          /\ attempt' = attempt + 1
          /\ gen' = r.gen
    /\ UNCHANGED <<prog, pattern, pc, variants, vi, ok, found, found_info, log,
                   reports, calls, raised, interrupts, pending>>
    /\ UNCHANGED <<setupvars, ratevars>>

Enum_Stop ==
    /\ pc = "e_run"
    /\ GenNext(gen, pattern).done
    /\ pc' = "e_done"
    /\ UNCHANGED <<prog, pattern, gen, candidate, attempt, variants, vi, ok, found,
                   found_info, log, reports, calls, raised, interrupts, pending>>
    /\ UNCHANGED <<setupvars, ratevars>>

EnumNext == Enum_Yield \/ Enum_Stop

SpecEnum == EnumInit /\ [][EnumNext]_vars

\* the digits of c at the wildcard positions of p, in ascending position
\* order, read as a base-10 integer
RECURSIVE WildValueFrom(_, _, _, _)
WildValueFrom(c, p, i, acc) ==
    IF i > Len(p) THEN acc
    ELSE WildValueFrom(c, p, i + 1,
                       IF p[i] = Wildcard THEN acc * 10 + (Ord(c[i]) - 48) ELSE acc)

WildCount(p) == Cardinality({i \in 1..Len(p) : p[i] = Wildcard})

\* C3: for a pattern with k wildcards the generator yields exactly 10^k
\* candidates (one, the pattern itself, when k = 0); the n-th candidate has
\* the pattern's length, keeps every fixed digit, and its digits at the
\* wildcard positions, read in ascending position order as a base-10 integer,
\* are n - 1: the integer rises strictly from 0 to 10^k - 1, nothing repeats.
C3_EnumerationOrder ==
    pc \in {"e_run", "e_done"} =>
        /\ attempt <= Pow10(WildCount(pattern))
        /\ (pc = "e_done" => attempt = Pow10(WildCount(pattern)))
        /\ (attempt >= 1 =>
              /\ Len(candidate) = Len(pattern)
              /\ \A i \in 1..Len(pattern) : candidate[i] \in DigitSet
              /\ \A i \in 1..Len(pattern) :
                    pattern[i] # Wildcard => candidate[i] = pattern[i]
              /\ WildValueFrom(candidate, pattern, 1, 0) = attempt - 1)

\* the last candidate of "**63" has been yielded by the product generator
C3_Witness ==
    /\ pc = "e_done"
    /\ prog = "numeric"
    /\ pattern = <<"*", "*", "6", "3">>
    /\ candidate = <<"9", "9", "6", "3">>
    /\ attempt = 100

\* the number of wildcards of p at the positions up to j
WildRank(p, j) == Cardinality({i \in 1..j : p[i] = Wildcard})

\* the candidate at offset i, written down from i alone: the wildcard of
\* rank r (of k, ascending) holds the r-th decimal digit of i padded to k
CandidateAt(p, i) ==
    [j \in 1..Len(p) |->
        IF p[j] = Wildcard
        THEN DigitChars[((i \div Pow10(WildCount(p) - WildRank(p, j))) % 10) + 1]
        ELSE p[j]]

\* what generate_last4_from_mask(p) yields when its loop is at val = i
MaskNth(p, i) == GenNext(GenState("mask", i, <<>>, i = 0), p).value

\* C18: the candidate at 0-based offset i is computable from i.  Whichever
\* generator runs (itertools.product with build_candidate_from_pattern, or
\* range and zfill in generate_last4_from_mask), its (i+1)-th candidate is
\* the pattern with the digits of i, zero-padded to k, at its wildcards in
\* ascending order, and it is what generate_last4_from_mask yields at val = i;
\* a generator that has stopped has gone through every i below 10^k.
C18_OffsetComputable ==
    /\ (pc \in {"e_run", "e_done"} /\ attempt >= 1 =>
          /\ candidate = CandidateAt(pattern, attempt - 1)
          /\ candidate = MaskNth(pattern, attempt - 1))
    /\ (pc = "e_done" => attempt = Pow10(WildCount(pattern)))

\* the product generator is at offset 37 of "*6*3"
C18_Witness ==
    /\ pc = "e_run"
    /\ prog = "numeric"
    /\ pattern = <<"*", "6", "*", "3">>
    /\ attempt = 38
    /\ candidate = <<"3", "6", "7", "3">>

-----------------------------------------------------------------------------
(* Encoding variants (pdf_crack_commercial.build_variants) *)


\* s.encode("utf-8") of a string of ASCII characters
EncodeUtf8(s) == [i \in 1..Len(s) |-> Ord(s[i])]

\* s.encode("utf-16-le")
EncodeUtf16LE(s) ==
    [i \in 1..(2 * Len(s)) |-> IF i % 2 = 1 THEN Ord(s[(i + 1) \div 2]) ELSE 0]

\* s.encode("utf-16-be")
EncodeUtf16BE(s) ==
    [i \in 1..(2 * Len(s)) |-> IF i % 2 = 0 THEN Ord(s[i \div 2]) ELSE 0]

\* the list "variants" of build_variants, before deduplication
VariantList(s) ==
    LET rev == Reverse(s)
    IN << Payload("str", s),
          Payload("str", rev),
          Payload("bytes", EncodeUtf8(s)),
          Payload("bytes", EncodeUtf8(rev)),
          Payload("bytes", EncodeUtf16LE(s)),
          Payload("bytes", EncodeUtf16LE(rev)),
          Payload("bytes", EncodeUtf16BE(s)),
          Payload("bytes", EncodeUtf16BE(rev)) >>

\* the bytes a payload stands for: a str is sent as its UTF-8 encoding
ByteContent(v) == IF v.typ = "str" THEN EncodeUtf8(v.val) ELSE v.val

\* faulty variant of DedupKey: a str and its UTF-8 bytes share a key
DedupKey_IgnoreType(v) == <<"B", ByteContent(v)>>

\* key = v if isinstance(v, str) else ("B", v): a str never equals a tuple
DedupKey(v) == IF v.typ = "str" THEN <<"S", EncodeUtf8(v.val)>> ELSE <<"B", v.val>>

\* the loop "for v in variants" with seen and out
RECURSIVE DedupFrom(_, _, _, _)
DedupFrom(vs, i, seen, out) ==
    IF i > Len(vs) THEN out
    ELSE IF DedupKey(vs[i]) \in seen THEN DedupFrom(vs, i + 1, seen, out)
    ELSE DedupFrom(vs, i + 1, seen \cup {DedupKey(vs[i])}, Append(out, vs[i]))

build_variants(candidate_str) == DedupFrom(VariantList(candidate_str), 1, {}, <<>>)

-----------------------------------------------------------------------------
(* SpecVar: build_variants applied to one candidate *)

VarInit ==
    /\ prog = "commercial"
    /\ pattern = <<>>
    /\ pc = "v_input"
    /\ gen = GenState("list", 0, <<>>, TRUE)
    /\ candidate \in StringsUpTo(DigitSet, VarMaxLen)
    /\ attempt = 0
    /\ variants = <<>>
    /\ vi = 0
    /\ ok = FALSE
    /\ found = FALSE
    /\ found_info = NoInfo
    /\ log = <<>>
    /\ reports = <<>>
    /\ calls = <<>>
    /\ raised = FALSE
    /\ interrupts = 0
    /\ pending = FALSE
    /\ env = ReadyEnv
    /\ length = 0
    /\ status = "none"
    /\ confirmed = FALSE
    /\ raw = <<>>
    /\ msg = "none"
    /\ elapsed = 0
    /\ progress = NoProgress

Var_Build ==
    /\ pc = "v_input"
    /\ variants' = build_variants(candidate)
    /\ pc' = "v_built"
    /\ UNCHANGED <<prog, pattern, gen, candidate, attempt, vi, ok, found, found_info,
                   log, reports, calls, raised, interrupts, pending>>
    /\ UNCHANGED <<setupvars, ratevars>>

VarNext == Var_Build

SpecVar == VarInit /\ [][VarNext]_vars

-----------------------------------------------------------------------------
(* Spec: main() of the three scripts, from the opening of output.txt on *)

PROGRESS_INTERVAL == 5000

\* the condition of the progress line: attempt % PROGRESS_INTERVAL == 0 or ok
ShouldReport(a, okv) == a % PROGRESS_INTERVAL = 0 \/ okv

\* total_space = 10 ** len(unknown_indices) if len(unknown_indices) else 1
total_space(p) ==
    IF Len(unknown_indices(p)) # 0 THEN Pow10(Len(unknown_indices(p))) ELSE 1

\* one line of output.txt
Line(kind, text, idx, payload) ==
    [kind |-> kind, text |-> text, idx |-> idx, payload |-> payload]

NoPayload == Payload("none", <<>>)

HeaderLine(text) == Line("header", text, 0, NoPayload)

\* one attempt_open call in the history: its payload, the value of attempt
\* when it began, and how it ended: "pass" (it returned True), "fail" (it
\* returned False or raised an Exception; raised tells which for the latest
\* call) or "interrupted" (KeyboardInterrupt ended it before it returned)
Call(payload, idx, res) == [payload |-> payload, idx |-> idx, res |-> res]

HistoryRes(r) == IF r = "pass" THEN "pass" ELSE "fail"

\* what attempt_open can do from the caller's side: return True, return
\* False, or raise an Exception
Outcomes == {"pass", "fail", "raise"}

\* faulty variant of TrialResult: an Exception counts as success
TrialResult_RaiseAsPass(r) == r # "fail"

\* try: ok = attempt_open(...)  except Exception: ok = False
TrialResult(r) == r = "pass"

\* result_str = "PASS" if ok else "FAIL"
ResultStr(b) == IF b THEN "PASS" ELSE "FAIL"

Init ==
    /\ prog \in {"numeric", "commercial", "fixed63"}
    /\ pattern \in IF prog = "fixed63" THEN {<<"*", "*", "6", "3">>}
                   ELSE PatternsOf(MaxLen, MaxUnknown)
    /\ pc = "open"
    /\ gen = CASE prog = "numeric" -> NumericIter(pattern)
               [] prog = "commercial" -> CommercialIter(pattern)
               [] prog = "fixed63" -> Fixed63Iter
    /\ candidate = <<>>
    /\ attempt = 0
    /\ variants = <<>>
    /\ vi = 0
    /\ ok = FALSE
    /\ found = FALSE
    /\ found_info = NoInfo
    /\ log = <<>>
    /\ reports = <<>>
    /\ calls = <<>>
    /\ raised = FALSE
    /\ interrupts = 0
    /\ pending = FALSE
    /\ env = ReadyEnv
    /\ length = Len(pattern)
    /\ status = "none"
    /\ confirmed = TRUE
    /\ raw = <<>>
    /\ msg = "none"
    /\ elapsed = 0
    /\ progress = NoProgress

(* ---- pdf_crack_numeric_len.py (and v-3) ---- *)

\* open(OUTPUT_FILE, "w"): truncate, four header lines and the column line
Numeric_Open ==
    /\ prog = "numeric" /\ pc = "open"
    /\ log' = <<HeaderLine("Start"), HeaderLine("PDF"), HeaderLine("Length"),
                HeaderLine("Pattern"), HeaderLine("Columns")>>
    /\ attempt' = 0
    /\ found' = FALSE
    /\ found_info' = NoInfo
    /\ pc' = "next"
    /\ UNCHANGED <<prog, pattern, gen, candidate, variants, vi, ok, reports, calls,
                   raised,
                   interrupts, pending>>
    /\ UNCHANGED <<setupvars, ratevars>>

\* for candidate in candidates_iter: attempt += 1
Numeric_Next ==
    /\ prog = "numeric" /\ pc = "next"
    /\ LET r == GenNext(gen, pattern)
       IN /\ gen' = r.gen
          /\ candidate' = IF r.done THEN candidate ELSE r.value
          /\ attempt' = IF r.done THEN attempt ELSE attempt + 1
          /\ pc' = IF r.done THEN "finally" ELSE "call"
    /\ UNCHANGED <<prog, pattern, variants, vi, ok, found, found_info, log, reports,
                   calls, raised, interrupts, pending>>
    /\ UNCHANGED <<setupvars, ratevars>>

\* try: ok = attempt_open(pdf_path, candidate) except Exception: ok = False
Numeric_Call ==
    /\ prog = "numeric" /\ pc = "call"
    /\ \E r \in Outcomes :
          /\ ok' = TrialResult(r)
          /\ calls' = Append(calls, Call(Payload("str", candidate), attempt,
                                         HistoryRes(r)))
          /\ raised' = (r = "raise")
    /\ pc' = "log"
    /\ UNCHANGED <<prog, pattern, gen, candidate, attempt, variants, vi, found,
                   found_info, log, reports, interrupts, pending>>
    /\ UNCHANGED <<setupvars, ratevars>>

\* f.write(f"{attempt},{candidate},{result_str},{elapsed:.3f}\n")
Numeric_Log ==
    /\ prog = "numeric" /\ pc = "log"
    /\ log' = Append(log, Line("attempt", ResultStr(ok), attempt,
                               Payload("str", candidate)))
    /\ pc' = "progress"
    /\ UNCHANGED <<prog, pattern, gen, candidate, attempt, variants, vi, ok, found,
                   found_info, reports, calls, raised, interrupts, pending>>
    /\ UNCHANGED <<setupvars, ratevars>>

\* if attempt % PROGRESS_INTERVAL == 0 or ok: print(progress line)
Numeric_Progress ==
    /\ prog = "numeric" /\ pc = "progress"
    /\ reports' = IF ShouldReport(attempt, ok)
                  THEN Append(reports, attempt) ELSE reports
    /\ progress' = IF ShouldReport(attempt, ok)
                   THEN ProgressLine(attempt, elapsed, total_space(pattern))
                   ELSE progress
    /\ pc' = "check"
    /\ UNCHANGED <<prog, pattern, gen, candidate, attempt, variants, vi, ok, found,
                   found_info, log, calls, raised, interrupts, pending>>
    /\ UNCHANGED <<setupvars, elapsed>>

\* if ok: found = True
Numeric_Check ==
    /\ prog = "numeric" /\ pc = "check"
    /\ found' = IF ok THEN TRUE ELSE found
    /\ pc' = IF ok THEN "setpw" ELSE "next"
    /\ UNCHANGED <<prog, pattern, gen, candidate, attempt, variants, vi, ok,
                   found_info, log, reports, calls, raised, interrupts, pending>>
    /\ UNCHANGED <<setupvars, ratevars>>

\* found_password = candidate; break
Numeric_SetPassword ==
    /\ prog = "numeric" /\ pc = "setpw"
    /\ found_info' = FoundInfo(candidate, Payload("str", candidate), 0)
    /\ pc' = "finally"
    /\ UNCHANGED <<prog, pattern, gen, candidate, attempt, variants, vi, ok, found,
                   log, reports, calls, raised, interrupts, pending>>
    /\ UNCHANGED <<setupvars, ratevars>>

\* except KeyboardInterrupt: print("Interrupted by user")
Numeric_Except ==
    /\ prog = "numeric" /\ pc = "except"
    /\ pc' = "finally"
    /\ UNCHANGED <<prog, pattern, gen, candidate, attempt, variants, vi, ok, found,
                   found_info, log, reports, calls, raised, interrupts, pending>>
    /\ UNCHANGED <<setupvars, ratevars>>

\* faulty variant of Numeric_Finally: no summary line unless found
Numeric_Finally_SuccessOnly ==
    /\ prog = "numeric" /\ pc = "finally"
    /\ log' = IF found
              THEN Append(log, Line("summary", "SUCCESS", attempt, found_info.var))
              ELSE log
    /\ pc' = IF pending THEN "crashed" ELSE "done"
    /\ UNCHANGED <<prog, pattern, gen, candidate, attempt, variants, vi, ok, found,
                   found_info, reports, calls, raised, interrupts, pending>>
    /\ UNCHANGED <<setupvars, ratevars>>

\* finally: the summary line, SUCCESS if found and STOPPED otherwise
Numeric_Finally ==
    /\ prog = "numeric" /\ pc = "finally"
    /\ log' = Append(log, IF found
                          THEN Line("summary", "SUCCESS", attempt, found_info.var)
                          ELSE Line("summary", "STOPPED", attempt, NoPayload))
    /\ pc' = IF pending THEN "crashed" ELSE "done"
    /\ UNCHANGED <<prog, pattern, gen, candidate, attempt, variants, vi, ok, found,
                   found_info, reports, calls, raised, interrupts, pending>>
    /\ UNCHANGED <<setupvars, ratevars>>

\* SIGINT: KeyboardInterrupt is raised in main's thread before the statement
\* at pc completes.  Inside the try block it is caught by "except
\* KeyboardInterrupt"; "except Exception" around attempt_open does not catch
\* it, so a call it interrupts (began = TRUE) never returns.  Raised in the
\* except clause it propagates after finally has run; raised in finally, or
\* before the try block, it ends the process there.
Numeric_Interrupt ==
    /\ prog = "numeric"
    /\ pc \in {"open", "next", "call", "log", "progress", "check", "setpw",
               "except", "finally"}
    /\ interrupts < MaxInterrupts
    /\ interrupts' = interrupts + 1
    /\ pc' = CASE pc \in {"open", "finally"} -> "crashed"
               [] pc = "except" -> "finally"
               [] OTHER -> "except"
    /\ pending' = IF pc = "except" THEN TRUE ELSE pending
    /\ \E began \in BOOLEAN :
          calls' = IF pc = "call" /\ began
                   THEN Append(calls, Call(Payload("str", candidate), attempt,
                                           "interrupted"))
                   ELSE calls
    /\ UNCHANGED <<prog, pattern, gen, candidate, attempt, variants, vi, ok, found,
                   found_info, log, reports, raised>>
    /\ UNCHANGED <<setupvars, ratevars>>

(* ---- v-4/pdf_crack_commercial.py ---- *)

\* open(OUTPUT_FILE, "w"): Start, PDF, Mask and the column line
Commercial_Open ==
    /\ prog = "commercial" /\ pc = "open"
    /\ log' = <<HeaderLine("Start"), HeaderLine("PDF"), HeaderLine("Mask"),
                HeaderLine("Columns")>>
    /\ pc' = "next"
    /\ UNCHANGED <<prog, pattern, gen, candidate, attempt, variants, vi, ok, found,
                   found_info, reports, calls, raised, interrupts, pending>>
    /\ UNCHANGED <<setupvars, ratevars>>

\* for base_candidate in gen: attempt += 1; variants = build_variants(core)
Commercial_Next ==
    /\ prog = "commercial" /\ pc = "next"
    /\ LET r == GenNext(gen, pattern)
       IN /\ gen' = r.gen
          /\ candidate' = IF r.done THEN candidate ELSE r.value
          /\ attempt' = IF r.done THEN attempt ELSE attempt + 1
          /\ variants' = IF r.done THEN variants ELSE build_variants(r.value)
          /\ vi' = IF r.done THEN vi ELSE 1
          /\ pc' = IF r.done THEN "summary" ELSE "call"
    /\ UNCHANGED <<prog, pattern, ok, found, found_info, log, reports, calls, raised,
                   interrupts, pending>>
    /\ UNCHANGED <<setupvars, ratevars>>

\* for var in variants: try: ok = attempt_open(str(pdf_file), var)
\* except Exception: ok = False
Commercial_Call ==
    /\ prog = "commercial" /\ pc = "call"
    /\ \E r \in Outcomes :
          /\ ok' = TrialResult(r)
          /\ calls' = Append(calls, Call(variants[vi], attempt, HistoryRes(r)))
          /\ raised' = (r = "raise")
    /\ pc' = "log"
    /\ UNCHANGED <<prog, pattern, gen, candidate, attempt, variants, vi, found,
                   found_info, log, reports, interrupts, pending>>
    /\ UNCHANGED <<setupvars, ratevars>>

\* print(f"[{attempt:,}] Trying base={core} variant=({typ}) -> {result} ...")
\* outf.write(f"{attempt},{p_repr},{typ},{result},{elapsed:.3f}\n")
Commercial_Log ==
    /\ prog = "commercial" /\ pc = "log"
    /\ reports' = Append(reports, attempt)
    /\ log' = Append(log, Line("attempt", ResultStr(ok), attempt, variants[vi]))
    /\ pc' = "check"
    /\ UNCHANGED <<prog, pattern, gen, candidate, attempt, variants, vi, ok, found,
                   found_info, calls, raised, interrupts, pending>>
    /\ UNCHANGED <<setupvars, ratevars>>

\* if ok: found = True; found_info = (...); break     (else the next var)
Commercial_Check ==
    /\ prog = "commercial" /\ pc = "check"
    /\ found' = IF ok THEN TRUE ELSE found
    /\ found_info' = IF ok THEN FoundInfo(candidate, variants[vi], attempt)
                     ELSE found_info
    /\ vi' = IF ok THEN vi ELSE vi + 1
    /\ pc' = IF ok \/ vi + 1 > Len(variants) THEN "outer" ELSE "call"
    /\ UNCHANGED <<prog, pattern, gen, candidate, attempt, variants, ok, log,
                   reports, calls, raised, interrupts, pending>>
    /\ UNCHANGED <<setupvars, ratevars>>

\* faulty variant of Commercial_Outer: the outer loop goes on after a find
Commercial_Outer_NoBreak ==
    /\ prog = "commercial" /\ pc = "outer"
    /\ pc' = "next"
    /\ UNCHANGED <<prog, pattern, gen, candidate, attempt, variants, vi, ok, found,
                   found_info, log, reports, calls, raised, interrupts, pending>>
    /\ UNCHANGED <<setupvars, ratevars>>

\* if found: break
Commercial_Outer ==
    /\ prog = "commercial" /\ pc = "outer"
    /\ pc' = IF found THEN "summary" ELSE "next"
    /\ UNCHANGED <<prog, pattern, gen, candidate, attempt, variants, vi, ok, found,
                   found_info, log, reports, calls, raised, interrupts, pending>>
    /\ UNCHANGED <<setupvars, ratevars>>

\* "\nSUCCESS: ...\n" or "\nCOMPLETE: ...\n", then "Total attempts: ...\n"
Commercial_Summary ==
    /\ prog = "commercial" /\ pc = "summary"
    /\ log' = log \o
              << Line("blank", "", 0, NoPayload),
                 IF found THEN Line("summary", "SUCCESS", found_info.at, found_info.var)
                          ELSE Line("summary", "COMPLETE", 0, NoPayload),
                 Line("total", "Total attempts", attempt, NoPayload) >>
    /\ pc' = "done"
    /\ UNCHANGED <<prog, pattern, gen, candidate, attempt, variants, vi, ok, found,
                   found_info, reports, calls, raised, interrupts, pending>>
    /\ UNCHANGED <<setupvars, ratevars>>

\* SIGINT: main has no handler for KeyboardInterrupt, the process ends where
\* it is raised; a call it interrupts (began = TRUE) never returns
Commercial_Interrupt ==
    /\ prog = "commercial"
    /\ pc \in {"open", "next", "call", "log", "check", "outer", "summary"}
    /\ interrupts < MaxInterrupts
    /\ interrupts' = interrupts + 1
    /\ pc' = "crashed"
    /\ \E began \in BOOLEAN :
          calls' = IF pc = "call" /\ began
                   THEN Append(calls, Call(variants[vi], attempt, "interrupted"))
                   ELSE calls
    /\ UNCHANGED <<prog, pattern, gen, candidate, attempt, variants, vi, ok, found,
                   found_info, log, reports, raised, pending>>
    /\ UNCHANGED <<setupvars, ratevars>>

(* ---- v-2/pdf_crack_63-2.py ---- *)

\* open(OUTPUT_FILE, "w"): the start line, PDF and the column line
Fixed63_Open ==
    /\ prog = "fixed63" /\ pc = "open"
    /\ log' = <<HeaderLine("Start"), HeaderLine("PDF"), HeaderLine("Columns")>>
    /\ attempt' = 0
    /\ found' = FALSE
    /\ found_info' = NoInfo
    /\ pc' = "next"
    /\ UNCHANGED <<prog, pattern, gen, candidate, variants, vi, ok, reports, calls,
                   raised,
                   interrupts, pending>>
    /\ UNCHANGED <<setupvars, ratevars>>

\* for d1 in range(100): attempt += 1; candidate = f"{d1:02d}" + "63"
Fixed63_Next ==
    /\ prog = "fixed63" /\ pc = "next"
    /\ LET r == GenNext(gen, pattern)
       IN /\ gen' = r.gen
          /\ candidate' = IF r.done THEN candidate ELSE r.value
          /\ attempt' = IF r.done THEN attempt ELSE attempt + 1
          /\ pc' = IF r.done THEN "summary" ELSE "call"
    /\ UNCHANGED <<prog, pattern, variants, vi, ok, found, found_info, log, reports,
                   calls, raised, interrupts, pending>>
    /\ UNCHANGED <<setupvars, ratevars>>

\* try: ok = attempt_open(pdf_path, candidate) except Exception: ok = False
Fixed63_Call ==
    /\ prog = "fixed63" /\ pc = "call"
    /\ \E r \in Outcomes :
          /\ ok' = TrialResult(r)
          /\ calls' = Append(calls, Call(Payload("str", candidate), attempt,
                                         HistoryRes(r)))
          /\ raised' = (r = "raise")
    /\ pc' = "log"
    /\ UNCHANGED <<prog, pattern, gen, candidate, attempt, variants, vi, found,
                   found_info, log, reports, interrupts, pending>>
    /\ UNCHANGED <<setupvars, ratevars>>

\* f.write(f"{attempt},{candidate},{result_str},{elapsed:.3f}\n")
\* print(f"[{attempt:03d}] Trying {candidate} -> {result_str}")
Fixed63_Log ==
    /\ prog = "fixed63" /\ pc = "log"
    /\ log' = Append(log, Line("attempt", ResultStr(ok), attempt,
                               Payload("str", candidate)))
    /\ reports' = Append(reports, attempt)
    /\ pc' = "check"
    /\ UNCHANGED <<prog, pattern, gen, candidate, attempt, variants, vi, ok, found,
                   found_info, calls, raised, interrupts, pending>>
    /\ UNCHANGED <<setupvars, ratevars>>

\* if ok: found = True; found_password = candidate; break
Fixed63_Check ==
    /\ prog = "fixed63" /\ pc = "check"
    /\ found' = IF ok THEN TRUE ELSE found
    /\ found_info' = IF ok THEN FoundInfo(candidate, Payload("str", candidate), 0)
                     ELSE found_info
    /\ pc' = IF ok THEN "summary" ELSE "next"
    /\ UNCHANGED <<prog, pattern, gen, candidate, attempt, variants, vi, ok, log,
                   reports, calls, raised, interrupts, pending>>
    /\ UNCHANGED <<setupvars, ratevars>>

\* "\nSUCCESS: ...\n" or "\nFAILED: ...\n", then "Total attempts: ...\n"
Fixed63_Summary ==
    /\ prog = "fixed63" /\ pc = "summary"
    /\ log' = log \o
              << Line("blank", "", 0, NoPayload),
                 IF found THEN Line("summary", "SUCCESS", 0, found_info.var)
                          ELSE Line("summary", "FAILED", 0, NoPayload),
                 Line("total", "Total attempts", attempt, NoPayload) >>
    /\ pc' = "done"
    /\ UNCHANGED <<prog, pattern, gen, candidate, attempt, variants, vi, ok, found,
                   found_info, reports, calls, raised, interrupts, pending>>
    /\ UNCHANGED <<setupvars, ratevars>>

\* SIGINT: no handler, the process ends where KeyboardInterrupt is raised
Fixed63_Interrupt ==
    /\ prog = "fixed63"
    /\ pc \in {"open", "next", "call", "log", "check", "summary"}
    /\ interrupts < MaxInterrupts
    /\ interrupts' = interrupts + 1
    /\ pc' = "crashed"
    /\ \E began \in BOOLEAN :
          calls' = IF pc = "call" /\ began
                   THEN Append(calls, Call(Payload("str", candidate), attempt,
                                           "interrupted"))
                   ELSE calls
    /\ UNCHANGED <<prog, pattern, gen, candidate, attempt, variants, vi, ok, found,
                   found_info, log, reports, raised, pending>>
    /\ UNCHANGED <<setupvars, ratevars>>

Next ==
    \/ Numeric_Open \/ Numeric_Next \/ Numeric_Call \/ Numeric_Log
    \/ Numeric_Progress \/ Numeric_Check \/ Numeric_SetPassword
    \/ Numeric_Except \/ Numeric_Finally \/ Numeric_Interrupt
    \/ Commercial_Open \/ Commercial_Next \/ Commercial_Call \/ Commercial_Log
    \/ Commercial_Check \/ Commercial_Outer \/ Commercial_Summary
    \/ Commercial_Interrupt
    \/ Fixed63_Open \/ Fixed63_Next \/ Fixed63_Call \/ Fixed63_Log
    \/ Fixed63_Check \/ Fixed63_Summary \/ Fixed63_Interrupt

Spec == Init /\ [][Next]_vars

-----------------------------------------------------------------------------
(* SpecSetup: main() from the start of the process to the first call *)

\* U+00B2 SUPERSCRIPT TWO: str.isdigit() is True for it, int() rejects it
SuperTwo == "SUP2"

\* str.isdigit() of one character
IsDigit(ch) == ch \in DigitSet \cup {SuperTwo}

\* str.strip(): leading and trailing whitespace removed
RECURSIVE LStrip(_)
LStrip(s) == IF s # <<>> /\ Head(s) = " " THEN LStrip(Tail(s)) ELSE s

Strip(s) == Reverse(LStrip(Reverse(LStrip(s))))

\* str.upper() over the letters the inputs hold
UpperCh(c) ==
    CASE c = "y" -> "Y" [] c = "e" -> "E" [] c = "s" -> "S" [] c = "n" -> "N"
      [] c = "x" -> "X" [] OTHER -> c

Upper(s) == [i \in 1..Len(s) |-> UpperCh(s[i])]

RECURSIVE DigitsValue(_)
DigitsValue(ds) ==
    IF ds = <<>> THEN 0
    ELSE 10 * DigitsValue(SubSeq(ds, 1, Len(ds) - 1))
         + (CHOOSE v \in 0..9 : DigitChars[v + 1] = ds[Len(ds)])

\* int(s): an optional sign and decimal digits, ValueError otherwise
ParseInt(s) ==
    LET signed == s # <<>> /\ Head(s) \in {"+", "-"}
        body == IF signed THEN Tail(s) ELSE s
        valid == body # <<>> /\ \A i \in 1..Len(body) : body[i] \in DigitSet
    IN [valid |-> valid,
        value |-> IF ~valid THEN 0
                  ELSE IF signed /\ Head(s) = "-" THEN 0 - DigitsValue(body)
                  ELSE DigitsValue(body)]

\* the threshold of the large-space warnings: 10_000_000
LARGE_SPACE == 10000000

Stars(n) == [i \in 1..n |-> Wildcard]

\* the lines a user may type at the prompts, and the masks of sys.argv[2]
LengthInputs ==
    {<<>>, <<"x">>, <<"0">>, <<"-", "1">>, <<"1">>, <<" ", "2">>, <<"8">>}

PatternInputs ==
    {<<>>, <<" ">>, <<"*">>, <<"6">>, <<" ", "6">>, <<SuperTwo>>, <<"x">>,
     <<"6", "*">>, <<"*", "*">>, <<"6", "3">>, <<"x", "*">>, <<SuperTwo, "*">>,
     Stars(8), <<"6">> \o Stars(7)}

ConfirmInputs == {<<>>, <<"Y">>, <<"y">>, <<"N">>, <<"Y", "E", "S">>}

ChoiceInputs == {<<>>, <<"1">>, <<"2">>, <<"3">>}

MaskInputs ==
    {<<"6">>, <<"*">>, <<"6", "*">>, <<"x", "*">>, <<"6", "3">>, Stars(8)}

SetupInit ==
    /\ prog \in {"numeric", "commercial", "fixed63"}
    /\ env \in {Env(a, f, b) : a \in BOOLEAN, f \in BOOLEAN, b \in BOOLEAN}
    /\ pattern \in CASE prog = "numeric" -> {<<>>}
                     [] prog = "commercial" -> MaskInputs
                     [] prog = "fixed63" -> {<<"*", "*", "6", "3">>}
    /\ pc = "start"
    /\ gen = IF prog = "fixed63" THEN Fixed63Iter ELSE GenState("list", 0, <<>>, TRUE)
    /\ candidate = <<>>
    /\ attempt = 0
    /\ variants = <<>>
    /\ vi = 0
    /\ ok = FALSE
    /\ found = FALSE
    /\ found_info = NoInfo
    /\ log = <<>>
    /\ reports = <<>>
    /\ calls = <<>>
    /\ raised = FALSE
    /\ interrupts = 0
    /\ pending = FALSE
    /\ length = 0
    /\ status = "none"
    /\ confirmed = FALSE
    /\ raw = <<>>
    /\ msg = "none"
    /\ elapsed = 0
    /\ progress = NoProgress

\* the variables of the trial loop, which the setup leaves alone
loopvars == <<prog, candidate, attempt, variants, vi, ok, found, found_info, log,
              reports, calls, raised, interrupts, pending, env, ratevars>>

\* faulty variant of Main_Checks: a missing PDF library is not looked for
Main_Checks_NoBackendCheck ==
    /\ pc = "start"
    /\ LET failed == ~env.argv \/ ~env.file
       IN /\ status' = IF failed THEN "exit(1)" ELSE status
          /\ msg' = CASE ~env.argv -> "usage"
                      [] env.argv /\ ~env.file -> "error.file_not_found"
                      [] OTHER -> msg
          /\ pc' = CASE failed -> "exit"
                     [] ~failed /\ prog = "numeric" -> "s_length"
                     [] ~failed /\ prog = "commercial" -> "s_mask"
                     [] ~failed /\ prog = "fixed63" -> "open"
    /\ UNCHANGED <<pattern, gen, length, confirmed, raw, loopvars>>

\* main: the checks of sys.argv, of the PDF path and of the PDF library, each
\* ending the process by sys.exit(1)
Main_Checks ==
    /\ pc = "start"
    /\ LET failed == ~env.argv \/ ~env.file \/ ~env.backend
       IN /\ status' = IF failed THEN "exit(1)" ELSE status
          /\ msg' = CASE ~env.argv -> "usage"
                      [] env.argv /\ ~env.file -> "error.file_not_found"
                      [] env.argv /\ env.file /\ ~env.backend -> "error.no_pdf_library"
                      [] OTHER -> msg
          /\ pc' = CASE failed -> "exit"
                     [] ~failed /\ prog = "numeric" -> "s_length"
                     [] ~failed /\ prog = "commercial" -> "s_mask"
                     [] ~failed /\ prog = "fixed63" -> "open"
    /\ UNCHANGED <<pattern, gen, length, confirmed, raw, loopvars>>

\* prompt_length, one turn of its loop up to the warning; length holds the
\* function's local until it returns
Numeric_PromptLength ==
    /\ prog = "numeric" /\ pc = "s_length"
    /\ \E s \in LengthInputs :
          LET r == ParseInt(Strip(s))
          IN /\ raw' = s
             /\ msg' = CASE ~r.valid -> "error.length_integer"
                         [] r.valid /\ r.value <= 0 -> "error.length_positive"
                         [] r.valid /\ r.value > 0 /\ Pow10(r.value) > LARGE_SPACE ->
                              "warn.full_space"
                         [] OTHER -> "none"
             /\ length' = IF r.valid /\ r.value > 0 THEN r.value ELSE length
             /\ pc' = CASE ~r.valid \/ r.value <= 0 -> "s_length"
                        [] r.valid /\ r.value > 0 /\ Pow10(r.value) > LARGE_SPACE ->
                             "s_lenconfirm"
                        [] OTHER -> "s_pattern"
    /\ confirmed' = FALSE
    /\ UNCHANGED <<pattern, gen, status, loopvars>>

\* prompt_length: cinput = input(...).strip().upper(); if cinput != "Y": continue
Numeric_ConfirmLength ==
    /\ prog = "numeric" /\ pc = "s_lenconfirm"
    /\ \E s \in ConfirmInputs :
          /\ raw' = s
          /\ pc' = IF Upper(Strip(s)) = <<"Y">> THEN "s_pattern" ELSE "s_length"
    /\ UNCHANGED <<pattern, gen, length, status, confirmed, msg, loopvars>>

\* a pattern symbol that prompt_optional_pattern lets through
PatternChar(ch) == IsDigit(ch) \/ ch = Wildcard

\* prompt_optional_pattern, one turn of its loop; on a pattern returned main
\* computes unknown_indices and goes to the confirmation of its case
Numeric_PromptPattern ==
    /\ prog = "numeric" /\ pc = "s_pattern"
    /\ \E s \in PatternInputs :
          LET pat == Strip(s)
              mismatch == pat # <<>> /\ Len(pat) # length
              badchar == /\ pat # <<>> /\ Len(pat) = length
                         /\ \E i \in 1..Len(pat) : ~PatternChar(pat[i])
              result == IF pat = <<>> THEN Stars(length) ELSE pat
          IN /\ raw' = s
             /\ msg' = CASE pat = <<>> -> "info.no_pattern"
                         [] mismatch -> "error.pattern_mismatch"
                         [] badchar -> "error.pattern_chars"
                         [] OTHER -> "none"
             /\ pattern' = IF mismatch \/ badchar THEN pattern ELSE result
             /\ pc' = CASE mismatch -> "s_choice"
                        [] badchar -> "s_pattern"
                        [] OTHER -> IF Len(unknown_indices(result)) = 0
                                    THEN "s_single" ELSE "s_confirm"
    /\ confirmed' = FALSE
    /\ UNCHANGED <<gen, length, status, loopvars>>

\* prompt_optional_pattern after a length mismatch: "1" asks again, "2"
\* returns None (main asks for the length again), anything else sys.exit(0)
Numeric_Choice ==
    /\ prog = "numeric" /\ pc = "s_choice"
    /\ \E s \in ChoiceInputs :
          /\ raw' = s
          /\ pc' = CASE Strip(s) = <<"1">> -> "s_pattern"
                     [] Strip(s) = <<"2">> -> "s_length"
                     [] OTHER -> "exit"
          /\ status' = IF Strip(s) \in {<<"1">>, <<"2">>} THEN status ELSE "exit(0)"
    /\ UNCHANGED <<pattern, gen, length, confirmed, msg, loopvars>>

\* main, unknown_count == 0: if input(...).strip() == 'YES':
\* candidates_iter = [pattern]; break   else: continue
Numeric_SingleConfirm ==
    /\ prog = "numeric" /\ pc = "s_single"
    /\ \E s \in ConfirmInputs :
          LET yes == Strip(s) = <<"Y", "E", "S">>
          IN /\ raw' = s
             /\ confirmed' = yes
             /\ gen' = IF yes THEN NumericIter(pattern) ELSE gen
             /\ pc' = IF yes THEN "open" ELSE "s_length"
    /\ UNCHANGED <<pattern, length, status, msg, loopvars>>

\* confirm_before_run: ans = input(...).strip().upper(); return ans == "Y";
\* main: if not confirm_before_run(...): continue, else the generator; break
Numeric_ConfirmRun ==
    /\ prog = "numeric" /\ pc = "s_confirm"
    /\ \E s \in ConfirmInputs :
          LET yes == Upper(Strip(s)) = <<"Y">>
          IN /\ raw' = s
             /\ msg' = IF total_space(pattern) > LARGE_SPACE
                       THEN "info.large_space_warn" ELSE msg
             /\ confirmed' = yes
             /\ gen' = IF yes THEN NumericIter(pattern) ELSE gen
             /\ pc' = IF yes THEN "open" ELSE "s_length"
    /\ UNCHANGED <<pattern, length, status, loopvars>>

\* v-4 main with a mask: gen = generate_last4_from_mask(mask, wildcard='*')
Commercial_Mask ==
    /\ prog = "commercial" /\ pc = "s_mask"
    /\ gen' = CommercialIter(pattern)
    /\ pc' = "open"
    /\ UNCHANGED <<pattern, length, status, confirmed, raw, msg, loopvars>>

\* the run after the setup, up to the end of its first attempt_open call
Setup_FirstAttempt ==
    /\ calls = <<>>
    /\ \/ Numeric_Open \/ Numeric_Next \/ Numeric_Call
       \/ Commercial_Open \/ Commercial_Next \/ Commercial_Call
       \/ Fixed63_Open \/ Fixed63_Next \/ Fixed63_Call

SetupNext ==
    \/ Main_Checks
    \/ Numeric_PromptLength \/ Numeric_ConfirmLength \/ Numeric_PromptPattern
    \/ Numeric_Choice \/ Numeric_SingleConfirm \/ Numeric_ConfirmRun
    \/ Commercial_Mask
    \/ Setup_FirstAttempt

SpecSetup == SetupInit /\ [][SetupNext]_vars

-----------------------------------------------------------------------------
(* SpecRate: the progress line computed for one attempt *)

\* the patterns, attempt numbers and clock readings (microseconds since
\* start_time; time.time() may stand still or step back) the line is
\* computed for
RatePatterns == {<<"6">>, Stars(1), Stars(2), Stars(3), Stars(4)}

RateAttempts == {1, 2, 10, PROGRESS_INTERVAL, 2 * PROGRESS_INTERVAL}

RateElapsed == {0 - MICRO, 0, 1, 1000, MICRO, 10 * MICRO}

\* an attempt for which the progress line is printed; more than 2000
\* attempts have taken a millisecond at least (the rate stays below 2^31)
RateInit ==
    /\ prog = "numeric"
    /\ pattern \in RatePatterns
    /\ pc = "r_input"
    /\ gen = NumericIter(pattern)
    /\ candidate = <<>>
    /\ attempt \in {a \in RateAttempts : a <= total_space(pattern)}
    /\ variants = <<>>
    /\ vi = 0
    /\ ok \in BOOLEAN
    /\ ShouldReport(attempt, ok)
    /\ found = FALSE
    /\ found_info = NoInfo
    /\ log = <<>>
    /\ reports = <<>>
    /\ calls = <<>>
    /\ raised = FALSE
    /\ interrupts = 0
    /\ pending = FALSE
    /\ env = ReadyEnv
    /\ length = Len(pattern)
    /\ status = "none"
    /\ confirmed = TRUE
    /\ raw = <<>>
    /\ msg = "none"
    /\ elapsed \in RateElapsed
    /\ (attempt > 2000 => elapsed >= 1000)
    /\ progress = NoProgress

\* rate, rem, eta and the print of the progress line
Rate_Report ==
    /\ pc = "r_input"
    /\ progress' = ProgressLine(attempt, elapsed, total_space(pattern))
    /\ reports' = Append(reports, attempt)
    /\ pc' = "r_done"
    /\ UNCHANGED <<prog, pattern, gen, candidate, attempt, variants, vi, ok, found,
                   found_info, log, calls, raised, interrupts, pending, setupvars,
                   elapsed>>

RateNext == Rate_Report

SpecRate == RateInit /\ [][RateNext]_vars

-----------------------------------------------------------------------------
(* Claims about the trial loop *)

\* the attempt lines of output.txt, in order
AttemptLines == SelectSeq(log, LAMBDA l : l.kind = "attempt")

\* some attempt_open call returned True
HasPass == \E i \in 1..Len(calls) : calls[i].res = "pass"

LastCall == calls[Len(calls)]

\* C1: once an attempt_open call has returned True no further call is made
\* (no later variant, no later candidate), found is only ever set after a
\* call that returned True, the stored credential is the candidate and the
\* payload of that call, and a run that ends undisturbed after a True has
\* stored it.
C1_StopAtFirstPass ==
    [][ /\ (HasPass => calls' = calls)
        /\ (found' => Len(calls') > 0 /\ LastCall'.res = "pass")
        /\ (found_info' # NoInfo =>
              /\ found'
              /\ found_info'.var = LastCall'.payload
              /\ found_info'.core = candidate')
        /\ (pc' = "done" /\ HasPass' /\ interrupts' = 0 =>
              found' /\ found_info'.var = LastCall'.payload)
      ]_vars

\* the commercial script has ended normally on a True that was neither the
\* last variant of its candidate nor the last candidate
C1_Witness ==
    /\ prog = "commercial"
    /\ pc = "done"
    /\ found
    /\ HasPass
    /\ vi < Len(variants)
    /\ attempt < Pow10(WildCount(pattern))
    /\ found_info.var = variants[vi]

\* C2: the counter counts attempt_open calls, not candidates: the n-th
\* attempt line of the log carries index n, and whenever no call is pending
\* and no interrupt has arrived the counter equals the number of calls made.
C2_CounterPerTrial ==
    /\ \A n \in 1..Len(AttemptLines) : AttemptLines[n].idx = n
    /\ (interrupts = 0 /\ pc # "call" => attempt = Len(calls))
    /\ (pc = "done" /\ found => attempt = Len(calls))

\* the candidates of a pattern: every wildcard replaced by every digit
CandidatesOf(p) ==
    {c \in StringsOfLen(DigitSet, Len(p)) :
        \A i \in 1..Len(p) : p[i] # Wildcard => c[i] = p[i]}

VariantCount(c) == Len(build_variants(c))

RECURSIVE SumVariantCounts(_)
SumVariantCounts(S) ==
    IF S = {} THEN 0
    ELSE LET x == CHOOSE y \in S : TRUE
         IN VariantCount(x) + SumVariantCounts(S \ {x})

\* N x v: one trial per unique variant of every candidate (the commercial
\* script), one trial per candidate (the scripts without variants)
TotalTrials ==
    IF prog = "commercial" THEN SumVariantCounts(CandidatesOf(pattern))
    ELSE Cardinality(CandidatesOf(pattern))

\* the summary line of the log names an outcome that only exhaustion gives
ExhaustionReported ==
    \E i \in 1..Len(log) :
        log[i].kind = "summary" /\ log[i].text \in {"COMPLETE", "FAILED"}

\* C4: when every attempt_open call fails (returns False or raises) and no
\* interrupt arrives, the run ends after exactly N x v calls with the
\* counter at N x v and reports exhaustion.
C4_ExhaustionCount ==
    (pc = "done" /\ ~HasPass /\ interrupts = 0) =>
        /\ Len(calls) = TotalTrials
        /\ attempt = TotalTrials
        /\ ExhaustionReported

\* C5: an Exception raised by attempt_open is caught in the loop and counts
\* as a failure: ok is False, the attempt line written for that call says
\* FAIL, the process never ends on it (only SIGINT ends a run abnormally),
\* and the loop goes on to the next variant or candidate, or to the summary
\* when none is left, as after a False result.
C5_RaiseIsFail ==
    /\ [](raised => ~ok /\ ~found)
    /\ [](pc = "crashed" => interrupts > 0)
    /\ [][ /\ (calls' # calls /\ raised' /\ interrupts' = interrupts => pc' = "log")
           /\ (raised /\ log' # log /\ pc = "log" =>
                 /\ log' = Append(log, log'[Len(log')])
                 /\ log'[Len(log')].kind = "attempt"
                 /\ log'[Len(log')].text = "FAIL"
                 /\ log'[Len(log')].payload = LastCall.payload)
           /\ (raised /\ pc = "check" /\ interrupts' = interrupts =>
                 pc' \in {"next", "call", "outer"})
           /\ (raised /\ pc = "outer" /\ interrupts' = interrupts => pc' = "next")
         ]_vars

\* after a call that raised, the commercial script is about to try the next
\* variant of the same candidate, the raise being logged as FAIL
C5_Witness ==
    /\ prog = "commercial"
    /\ raised
    /\ pc = "call"
    /\ vi >= 2
    /\ Len(AttemptLines) = Len(calls)
    /\ AttemptLines[Len(AttemptLines)].text = "FAIL"

-----------------------------------------------------------------------------
(* Claims about build_variants *)

\* the byte contents of a list of payloads
Contents(vs) == [i \in 1..Len(vs) |-> ByteContent(vs[i])]

\* the six encodings of the declared order
DeclaredSix(s) ==
    << EncodeUtf8(s), EncodeUtf8(Reverse(s)),
       EncodeUtf16LE(s), EncodeUtf16LE(Reverse(s)),
       EncodeUtf16BE(s), EncodeUtf16BE(Reverse(s)) >>

\* a list without the later repetitions of its items
RECURSIVE FirstOccurrences(_)
FirstOccurrences(xs) ==
    IF xs = <<>> THEN <<>>
    ELSE LET front == SubSeq(xs, 1, Len(xs) - 1)
             x == xs[Len(xs)]
         IN IF \E i \in 1..Len(front) : front[i] = x
            THEN FirstOccurrences(front)
            ELSE Append(FirstOccurrences(front), x)

SamePayload(a, b) == a.typ = b.typ /\ a.val = b.val

\* C6: build_variants returns the candidate's encodings in the declared
\* order UTF-8, UTF-8 reversed, UTF-16LE, UTF-16LE reversed, UTF-16BE,
\* UTF-16BE reversed (less the repetitions); for a candidate that is not a
\* palindrome these are six distinct payloads.
C6_DeclaredOrder ==
    pc = "v_built" =>
        /\ Contents(variants) = FirstOccurrences(DeclaredSix(candidate))
        /\ (candidate # Reverse(candidate) => Len(variants) = 6)

FirstIndex(vs, v) ==
    CHOOSE i \in 1..Len(vs) :
        /\ SamePayload(vs[i], v)
        /\ \A j \in 1..(i - 1) : ~SamePayload(vs[j], v)

-----------------------------------------------------------------------------
(* Claims about output.txt *)

\* the log is h header lines, then a attempt lines, then lines of the kinds
\* tail, and nothing else
LogShape(h, a, tail) ==
    /\ Len(log) = h + a + Len(tail)
    /\ \A i \in 1..h : log[i].kind = "header"
    /\ \A i \in (h + 1)..(h + a) : log[i].kind = "attempt"
    /\ \A i \in 1..Len(tail) : log[h + a + i].kind = tail[i]

SummaryLines == SelectSeq(log, LAMBDA l : l.kind = "summary")

\* C9: a run that has opened its log and ended, normally or on an interrupt,
\* has appended exactly one summary line, the last line of the log: SUCCESS
\* when a credential was found, COMPLETE when the candidates were exhausted,
\* STOPPED when it was interrupted.
C9_SummaryKinds ==
    (pc \in {"done", "crashed"} /\ log # <<>>) =>
        /\ Len(SummaryLines) = 1
        /\ log[Len(log)].kind = "summary"
        /\ (found => SummaryLines[1].text = "SUCCESS")
        /\ (~found /\ interrupts = 0 => SummaryLines[1].text = "COMPLETE")
        /\ (~found /\ interrupts > 0 => SummaryLines[1].text = "STOPPED")

\* C10: an interrupt never cuts an attempt short: no attempt_open call is
\* ended by the interrupt, once the run has stopped every call begun has its
\* attempt line, and a run its handler ended on an interrupt without a find
\* has a STOPPED summary as its last line.
C10_CancelBetweenAttempts ==
    /\ \A i \in 1..Len(calls) : calls[i].res # "interrupted"
    /\ (pc = "done" =>
          /\ Len(AttemptLines) = Len(calls)
          /\ (interrupts > 0 /\ ~found =>
                /\ log[Len(log)].kind = "summary"
                /\ log[Len(log)].text = "STOPPED"))

\* the attempt_open calls that returned or raised an Exception, in order
CompletedCalls == SelectSeq(calls, LAMBDA c : c.res # "interrupted")

\* C11: the log is durable.  Every attempt line is the whole record of a
\* completed call, in the order of the calls, with that call's payload and
\* result; the record of a call is written before the next call begins; and
\* outside the instant between the return of a call and the write of its
\* line, also right after an interrupt, no completed call lacks its record.
C11_Durability ==
    /\ Len(AttemptLines) <= Len(CompletedCalls)
    /\ \A n \in 1..Len(AttemptLines) :
          /\ SamePayload(AttemptLines[n].payload, CompletedCalls[n].payload)
          /\ AttemptLines[n].text = ResultStr(CompletedCalls[n].res = "pass")
    /\ Len(CompletedCalls) - Len(AttemptLines) <= 1
    /\ (pc # "log" => Len(AttemptLines) = Len(CompletedCalls))

-----------------------------------------------------------------------------
(* Claims about the setup *)

\* the symbols of a PatternSpec: a digit 0-9 or the wildcard
ValidSymbols(p) == \A i \in 1..Len(p) : p[i] \in DigitSet \cup {Wildcard}

\* prompt_optional_pattern has returned a pattern to main
PatternAccepted == pc \in {"s_single", "s_confirm"}

\* C12: one answer to the pattern prompt for length L, the line typed being
\* raw.  The empty line gives the pattern of L wildcards; a non-empty line
\* is accepted, unchanged, only if it has L symbols, each a digit 0-9 or
\* '*'; a line of another length gets the length-mismatch error and a line of
\* length L with another symbol the character error, and neither becomes the
\* pattern.
C12_PatternParsing ==
    [][ pc = "s_pattern" =>
          /\ (raw' = <<>> => PatternAccepted' /\ pattern' = Stars(length))
          /\ (raw' # <<>> /\ PatternAccepted' =>
                /\ pattern' = raw'
                /\ Len(raw') = length
                /\ ValidSymbols(raw'))
          /\ (raw' # <<>> /\ Len(raw') # length =>
                /\ msg' = "error.pattern_mismatch"
                /\ ~PatternAccepted'
                /\ pattern' = pattern)
          /\ (Len(raw') = length /\ ~ValidSymbols(raw') =>
                /\ msg' = "error.pattern_chars"
                /\ ~PatternAccepted'
                /\ pattern' = pattern)
      ]_vars

\* the run is in its trial loop
AtTrialLoop == pc \in {"next", "call", "log"}

\* idx lists, ascending, exactly the positions of p that hold the wildcard
AscendingWildcards(p, idx) ==
    /\ \A i \in 1..(Len(idx) - 1) : idx[i] < idx[i + 1]
    /\ {idx[i] : i \in 1..Len(idx)} = {j \in 1..Len(p) : p[j] = Wildcard}

\* C13: whatever was typed or passed before, a run in its trial loop has a
\* valid PatternSpec: a positive length, a pattern of that many symbols, each
\* a digit 0-9 or the wildcard, and unknown_indices the ascending list of the
\* wildcard positions.
C13_ValidPatternSpec ==
    AtTrialLoop =>
        /\ Len(pattern) > 0
        /\ (prog = "numeric" => length > 0 /\ Len(pattern) = length)
        /\ ValidSymbols(pattern)
        /\ AscendingWildcards(pattern, unknown_indices(pattern))

\* C14: with a keyspace 10^k above 10,000,000 the log is not opened and no
\* attempt_open call is made unless the user confirmed the run after the
\* pattern was chosen.
C14_LargeSpaceGate ==
    (Pow10(WildCount(pattern)) > LARGE_SPACE /\ (log # <<>> \/ calls # <<>>))
        => confirmed

\* the PDF is missing or no PDF library was imported
SetupFailure == ~env.file \/ ~env.backend

\* C15: with the PDF missing (or not a file) or without a PDF library the
\* process goes from its start straight to sys.exit(1): it never gets past
\* the checks, opens no log and makes no attempt_open call.
C15_SetupFailuresFatal ==
    /\ [](SetupFailure =>
            /\ pc \in {"start", "exit"}
            /\ log = <<>> /\ calls = <<>> /\ attempt = 0
            /\ (pc = "exit" => status = "exit(1)"))
    /\ [][SetupFailure /\ pc = "start" => pc' = "exit" /\ status' = "exit(1)"]_vars

\* the process has ended for want of a PDF library, the PDF being there
C15_Witness ==
    /\ pc = "exit"
    /\ env.argv /\ env.file /\ ~env.backend
    /\ status = "exit(1)"
    /\ msg = "error.no_pdf_library"
    /\ log = <<>> /\ calls = <<>>

-----------------------------------------------------------------------------
(* Claims about the progress line *)

\* the attempt lines that are due a progress line: those whose attempt
\* number is a multiple of the interval and those of a PASS
ReportDue ==
    SelectSeq(AttemptLines,
              LAMBDA l : l.idx % PROGRESS_INTERVAL = 0 \/ l.text = "PASS")

\* C16: progress lines are throttled.  The progress lines printed are, in
\* order, those of the attempts that are due one (attempt number a multiple
\* of PROGRESS_INTERVAL, or PASS) and no others; once the loop is past the
\* progress step of an attempt, in a run no interrupt disturbs, none is owed.
C16_ProgressThrottled ==
    /\ Len(reports) <= Len(ReportDue)
    /\ \A i \in 1..Len(reports) : reports[i] = ReportDue[i].idx
    /\ (interrupts = 0 /\ pc # "progress" => Len(reports) = Len(ReportDue))

\* C17: in a progress line, with elapsed measurable, rate is attempt /
\* elapsed (per second) and ETA is (total_space - attempt) / rate, so
\* attempt 5000 after 10 s of a keyspace of 10000 gives 500/s and 10 s; with
\* elapsed at zero (or below) the ETA is the sentinel, not a finite number;
\* and the ETA is never negative.
C17_RateAndEta ==
    pc = "r_done" =>
        /\ (elapsed >= 1 =>
              /\ progress.rate = QuotDiv(Quot(attempt, 1), Quot(elapsed, MICRO))
              /\ progress.eta = QuotDiv(Quot(total_space(pattern) - attempt, 1),
                                        progress.rate))
        /\ (attempt = 5000 /\ elapsed = 10 * MICRO /\ pattern = Stars(4) =>
              /\ progress.rate = [num |-> 500, den |-> 1]
              /\ progress.eta = [num |-> 10, den |-> 1])
        /\ (elapsed < 1 => progress.eta = Inf)
        /\ progress.eta.num >= 0

-----------------------------------------------------------------------------
(* Claims about the log as a whole *)

\* the positions of the PASS records among the attempt lines
PassRecords == {n \in 1..Len(AttemptLines) : AttemptLines[n].text = "PASS"}

\* the lines that state the total of attempts: the summary line of
\* pdf_crack_numeric_len.py, the "Total attempts" line of v-4 and v-2
TotalLines ==
    SelectSeq(log, LAMBDA l : IF prog = "numeric" THEN l.kind = "summary"
                              ELSE l.kind = "total")

\* C19: after any run, interrupted or not, the summary agrees with the
\* attempt records: it is SUCCESS exactly if some record is PASS; a PASS
\* record is the last attempt record, hence the only one; the credential of
\* the SUCCESS summary is that of the PASS record; and the total the log
\* states is the number of its attempt records.
C19_SummaryAgreesWithRecords ==
    /\ \A n \in PassRecords : n = Len(AttemptLines)
    /\ (pc \in {"done", "crashed"} =>
          /\ (PassRecords # {} <=>
                \E i \in 1..Len(SummaryLines) : SummaryLines[i].text = "SUCCESS")
          /\ \A i \in 1..Len(SummaryLines) :
                SummaryLines[i].text = "SUCCESS" =>
                    /\ AttemptLines # <<>>
                    /\ SamePayload(SummaryLines[i].payload,
                                   AttemptLines[Len(AttemptLines)].payload)
          /\ \A i \in 1..Len(TotalLines) : TotalLines[i].idx = Len(AttemptLines))

====
